---- MODULE Spec2Model ----
(***************************************************************************)
(* Creative-Uploader: the authenticated session (moloco_client.py), the    *)
(* resilient upload loop and the video helpers (video_processing.py) and   *)
(* the image normalizer (image_processing.py), as state machines.          *)
(*                                                                         *)
(* Scheduling. The client is asyncio code: a coroutine runs without        *)
(* interruption from one await that suspends to the next. Awaits that      *)
(* suspend are the network calls (httpx) and asyncio.sleep. Acquiring the  *)
(* asyncio.Lock of ensure_authenticated never suspends, because the block  *)
(* it guards holds no await and so the lock is free whenever a coroutine   *)
(* is scheduled. One action of the model is one such uninterrupted run.    *)
(*                                                                         *)
(* Time is counted in minutes; datetime.now() is the variable now.         *)
(***************************************************************************)
EXTENDS Integers, Sequences, FiniteSets, TLC

\* ------------------------------------------------------------------ bounds
NCallers == 2
MaxTime == 1000
MaxTokenPosts == 4
MaxPrepareCalls == 2

\* ------------------------------------------------- constants of the program
TOKEN_LIFETIME_HOURS == 16
RefreshMarginMinutes == 5
retries == 3

TokenLifetimeMinutes == TOKEN_LIFETIME_HOURS * 60

Callers == 1..NCallers
NoToken == 0
NoExpiry == -1
NoOne == 0

\* The clock advances between the runs of coroutines. The steps are chosen so
\* that a credential issued at time r is seen with 10, 5 and 0 minutes left.
TickSteps == {TokenLifetimeMinutes - 10, TokenLifetimeMinutes - 5, TokenLifetimeMinutes}

\* Status codes the remote endpoints answer with.
Statuses == {200, 400, 502, 503}
ErrorStatuses == {s \in Statuses : s >= 400}

\* ------------------------------------------------------------------- text
\* Text is a sequence of one-character strings.
Digit(d) ==
  CASE d = 0 -> "0" [] d = 1 -> "1" [] d = 2 -> "2" [] d = 3 -> "3" [] d = 4 -> "4"
    [] d = 5 -> "5" [] d = 6 -> "6" [] d = 7 -> "7" [] d = 8 -> "8" [] d = 9 -> "9"

RECURSIVE IntToText(_)
IntToText(n) == IF n < 10 THEN <<Digit(n)>> ELSE IntToText(n \div 10) \o <<Digit(n % 10)>>

\* str.lower, on the capitals that occur in the texts of the model.
LowerChar(c) ==
  CASE c = "T" -> "t" [] c = "H" -> "h" [] c = "P" -> "p" [] c = "U" -> "u"
    [] c = "I" -> "i" [] c = "M" -> "m" [] c = "E" -> "e" [] c = "O" -> "o"
    [] c = "S" -> "s" [] c = "D" -> "d" [] c = "N" -> "n" [] c = "G" -> "g"
    [] OTHER -> c

Lower(s) == [i \in 1..Len(s) |-> LowerChar(s[i])]

\* tok in s, Python's substring test.
Contains(s, tok) ==
  \E i \in 0..(Len(s) - Len(tok)) : SubSeq(s, i + 1, i + Len(tok)) = tok

\* Bodies of error responses, and words a session response can carry.
BodyPlain == <<"d", "e", "n", "i", "e", "d">>
BodyWithNumber == <<"i", "d", " ", "7", "5", "0", "2", "1">>
BodyWithTimeout == <<"G", "a", "t", "e", "w", "a", "y", " ", "T", "i", "m", "e", "o", "u", "t">>
Bodies == {BodyPlain, BodyWithNumber, BodyWithTimeout}

\* ----------------------------------------------------------------- state
VARIABLES
  now,               \* datetime.now(), minutes
  access_token,      \* MolocoAPIClient.access_token
  token_expires_at,  \* MolocoAPIClient.token_expires_at
  auth_lock,         \* MolocoAPIClient._auth_lock: its holder, NoOne when free
  tokensIssued,      \* tokens the issuance endpoint has handed out
  tokenPosts,        \* POST auth/tokens requests sent so far
  tokenFails,        \* POST auth/tokens requests answered with an error
  pc,                \* per caller of _request: where the coroutine is suspended
  inflight,          \* per caller of _request: the signed request on the wire
  outcome,           \* per caller of _request: how its last finished call ended
  upc,               \* _upload_file_to_gcs: where the coroutine is suspended
  attempt,           \* _upload_file_to_gcs: the loop variable
  asset_url,         \* _upload_file_to_gcs: local, 0 when None
  upload_url,        \* _upload_file_to_gcs: local, 0 when None
  put,               \* the PUT on the wire
  result,            \* the asset_url returned, 0 before the return
  slotsIssued,       \* upload slots the API has handed out
  slotReqs,          \* POST /creative-assets requests sent
  sleeps,            \* the delays slept, in order
  fails,             \* the failed attempts, in order: where and how each failed
  slots,             \* per answered slot request: the attempt and what it returned
  puts,              \* per PUT sent: the attempt and its destination
  putOk,             \* the destination of the PUT that succeeded, 0 when none
  files,             \* the file system: path -> [size in bytes, w, h]
  ipc,               \* prepare_image_for_upload: where the call stands
  file_path,         \* prepare_image_for_upload: its argument
  probed,            \* prepare_image_for_upload: (w, h) of get_image_dimensions
  retina,            \* prepare_image_for_upload: result of detect_retina_size
  corrected_path,    \* prepare_image_for_upload: local
  corrected_dims,    \* prepare_image_for_upload: (corrected_w, corrected_h)
  file_size,         \* prepare_image_for_upload: file_size_kb, kept in bytes
  warnings,          \* prepare_image_for_upload: local, the kinds of warning
  quality,           \* compress_image: the loop variable
  encoderLog,        \* the encoder invocations of the call: input, output, setting
  report,            \* the dict prepare_image_for_upload returned
  calls,             \* calls of prepare_image_for_upload made so far
  prev_report,       \* the dict the call before the last one returned
  vpc,               \* the video helpers: where the call stands
  vop,               \* the video helper that was called
  max_bytes,         \* transcode_video_to_native: local
  crfIdx,            \* transcode_video_to_native: the loop's position in the levels
  output_file,       \* the file at output_path: its size, NoFile when absent
  videoLog,          \* the encoder invocations of the call and how each ended
  video_result,      \* what the helper returned
  unlink,            \* transcode_video_to_native: how os.unlink ended
  probe,             \* extract_endcard_from_video: how the duration probe ended
  duration,          \* extract_endcard_from_video: local, in milliseconds
  vid_dims,          \* get_native_video_size: its arguments
  native_size        \* get_native_video_size: its result, <<>> when None

authVars == <<now, access_token, token_expires_at, auth_lock, tokensIssued,
              tokenPosts, tokenFails>>
callerVars == <<pc, inflight, outcome>>
uploadVars == <<upc, attempt, asset_url, upload_url, put, result, slotsIssued,
                slotReqs, sleeps, fails, slots, puts, putOk>>
imageVars == <<files, ipc, file_path, probed, retina, corrected_path, corrected_dims,
               file_size, warnings, quality, encoderLog, report, calls, prev_report>>
videoVars == <<vpc, vop, max_bytes, crfIdx, output_file, videoLog, video_result, unlink,
               probe, duration, vid_dims, native_size>>

NoRequest == [token |-> NoToken, expires |-> NoExpiry, builtAt |-> -1]

\* -------------------------------------------------- ensure_authenticated
\* The check without the safety margin.
CredentialValidNoMargin ==
  /\ access_token # NoToken
  /\ token_expires_at # NoExpiry
  /\ now < token_expires_at

\* A check that takes a credential with exactly the margin left for valid.
CredentialValidAtMargin ==
  /\ access_token # NoToken
  /\ token_expires_at # NoExpiry
  /\ now <= token_expires_at - RefreshMarginMinutes

\* Lines 85-86: the credential is present and has more than the margin left.
CredentialValid ==
  /\ access_token # NoToken
  /\ token_expires_at # NoExpiry
  /\ now < token_expires_at - RefreshMarginMinutes

\* A check that leaves the block with the lock still held.
LockedCheckKeepsLock ==
  /\ auth_lock = NoOne
  /\ auth_lock' = 1

\* Lines 84-87: the check runs with the lock held and the lock is released on
\* leaving the block, on both branches.
LockedCheck ==
  /\ auth_lock = NoOne
  /\ auth_lock' = NoOne

\* Lines 88-92: POST auth/tokens is sent, outside the lock.
SendTokenRequest ==
  /\ tokenPosts < MaxTokenPosts
  /\ tokenPosts' = tokenPosts + 1

\* Lines 99-101: a success response is stored with expiry = now + 16 hours.
StoreToken ==
  /\ tokensIssued' = tokensIssued + 1
  /\ access_token' = tokensIssued + 1
  /\ token_expires_at' = now + TokenLifetimeMinutes

\* An error response that also drops the stored credential.
RaiseTokenErrorClearsSession ==
  /\ tokenFails' = tokenFails + 1
  /\ access_token' = NoToken
  /\ token_expires_at' = NoExpiry
  /\ UNCHANGED tokensIssued

\* Lines 93-98: an error response raises; nothing of the session is written.
RaiseTokenError ==
  /\ tokenFails' = tokenFails + 1
  /\ UNCHANGED <<access_token, token_expires_at, tokensIssued>>

\* Lines 103-108: the Authorization header carries the token as it is when
\* ensure_authenticated returns. expires and builtAt record the session's
\* expiry and the clock at that moment.
Headers(tok, exp) == [token |-> tok, expires |-> exp, builtAt |-> now]

\* ------------------------------------------------------ callers of _request
\* _request, lines 115-125, up to its first suspension: the locked check, then
\* either the signed request or the token request goes out.
Call(p) ==
  /\ pc[p] = "idle"
  /\ LockedCheck
  /\ IF CredentialValid
       THEN /\ pc' = [pc EXCEPT ![p] = "reqwait"]
            /\ inflight' = [inflight EXCEPT ![p] = Headers(access_token, token_expires_at)]
            /\ UNCHANGED tokenPosts
       ELSE /\ SendTokenRequest
            /\ pc' = [pc EXCEPT ![p] = "tokwait"]
            /\ UNCHANGED inflight
  /\ UNCHANGED <<now, access_token, token_expires_at, tokensIssued, tokenFails, outcome>>
  /\ UNCHANGED <<uploadVars, imageVars, videoVars>>

\* The token endpoint answers 2xx: lines 99-101, then _headers and the request.
TokenOk(p) ==
  /\ pc[p] = "tokwait"
  /\ StoreToken
  /\ pc' = [pc EXCEPT ![p] = "reqwait"]
  /\ inflight' = [inflight EXCEPT ![p] = Headers(access_token', token_expires_at')]
  /\ UNCHANGED <<now, auth_lock, tokenPosts, tokenFails, outcome>>
  /\ UNCHANGED <<uploadVars, imageVars, videoVars>>

\* The token endpoint answers >= 400: lines 93-98, the call raises.
TokenError(p) ==
  /\ pc[p] = "tokwait"
  /\ RaiseTokenError
  /\ pc' = [pc EXCEPT ![p] = "idle"]
  /\ outcome' = [outcome EXCEPT ![p] = "autherror"]
  /\ UNCHANGED <<now, auth_lock, tokenPosts, inflight>>
  /\ UNCHANGED <<uploadVars, imageVars, videoVars>>

\* The API answers the signed request: lines 126-132.
ApiResponse(p) ==
  /\ pc[p] = "reqwait"
  /\ \E st \in Statuses :
       outcome' = [outcome EXCEPT ![p] = IF st >= 400 THEN "apierror" ELSE "ok"]
  /\ pc' = [pc EXCEPT ![p] = "idle"]
  /\ inflight' = [inflight EXCEPT ![p] = NoRequest]
  /\ UNCHANGED <<authVars, uploadVars, imageVars, videoVars>>

Tick ==
  /\ \E d \in TickSteps : now + d <= MaxTime /\ now' = now + d
  /\ UNCHANGED <<access_token, token_expires_at, auth_lock, tokensIssued,
                 tokenPosts, tokenFails, callerVars, uploadVars, imageVars, videoVars>>

\* ------------------------------------------------- _upload_file_to_gcs
\* Exception texts. _request, ensure_authenticated and upload_asset_to_gcs
\* raise Exception(f"HTTP {status}: {body}") (moloco_client.py 98, 131, 240).
HttpErrorText(st, body) ==
  <<"H", "T", "T", "P", " ">> \o IntToText(st) \o <<":", " ">> \o body

\* video_processing.py 153: Exception(f"Upload session failed: {session}").
SessionErrorText(session) ==
  <<"U", "p", "l", "o", "a", "d", " ", "s", "e", "s", "s", "i", "o", "n", " ",
    "f", "a", "i", "l", "e", "d", ":", " ">> \o session

\* The text of the exception a network timeout raises in the HTTP library,
\* taken to name the timeout the way line 160 looks for it.
TimeoutText == <<"t", "i", "m", "e", "d", " ", "o", "u", "t">>

\* video_processing.py 154-155: the text of the OSError of a file that cannot
\* be opened or read.
ReadErrorText == <<"N", "o", " ", "s", "u", "c", "h", " ", "f", "i", "l", "e">>

\* What a session response can print as (its URLs are part of the text).
SessionPlain == <<"{", "}">>
SessionWithNumber == <<"u", "r", "l", "?", "e", "x", "p", "=", "5", "0", "3">>
SessionTexts == {SessionPlain, SessionWithNumber}

\* video_processing.py 160: the tokens looked for in the lowered text.
TransientTokens ==
  { <<"5", "0", "2">>, <<"5", "0", "3">>,
    <<"t", "i", "m", "e", "o", "u", "t">>,
    <<"t", "i", "m", "e", "d", " ", "o", "u", "t">> }

\* video_processing.py 159-160.
is_transient(text) ==
  LET err_str == Lower(text)
  IN  \E tok \in TransientTokens : Contains(err_str, tok)

\* A request that does not come back with a response below 400.
Failures ==
  {[kind |-> "http", status |-> st, text |-> HttpErrorText(st, b)] :
      st \in ErrorStatuses, b \in Bodies}
  \cup {[kind |-> "timeout", status |-> 0, text |-> TimeoutText]}

RECURSIVE Pow2(_)
Pow2(n) == IF n = 0 THEN 1 ELSE 2 * Pow2(n - 1)

\* A backoff that starts at 2 seconds.
BackoffDelayFromTwo(a) == Pow2(a + 1)

\* video_processing.py 162: wait = 2 ** attempt.
BackoffDelay(a) == Pow2(a)

\* video_processing.py 161: whether the handler sleeps and goes round again.
ShouldRetry(a, text) == a < retries - 1 /\ is_transient(text)

\* video_processing.py 158-167: the except block.
ExceptHandler(stage, kind, st, text) ==
  /\ fails' = Append(fails, [stage |-> stage, kind |-> kind, status |-> st])
  /\ IF ShouldRetry(attempt, text)
       THEN /\ sleeps' = Append(sleeps, BackoffDelay(attempt))
            /\ upc' = "sleep"
       ELSE /\ upc' = "failed"
            /\ UNCHANGED sleeps

NoPut == [url |-> 0, headers |-> {}]

\* A PUT sent with the headers of _headers as well.
PutRequestSigned(url) == [url |-> url, headers |-> {"Content-Type", "Authorization"}]

\* moloco_client.py 230-234: the PUT carries the headers given there.
PutRequest(url) == [url |-> url, headers |-> {"Content-Type"}]

\* A destination kept from an earlier attempt when there is one.
DestinationReused(sessionUrl, previousUrl) ==
  IF previousUrl # 0 THEN previousUrl ELSE sessionUrl

\* video_processing.py 150-151: the destination the PUT of this attempt uses.
DestinationOf(sessionUrl, previousUrl) == sessionUrl

\* moloco_client.py 222-225 after _headers returned: POST /creative-assets.
SendSlotRequest ==
  /\ slotReqs' = slotReqs + 1
  /\ upc' = "slotwait"

\* video_processing.py 146-149: an attempt begins with create_asset_upload_session,
\* that is _request, _headers and ensure_authenticated up to the first suspension.
BeginAttempt(a) ==
  /\ attempt' = a
  /\ LockedCheck
  /\ IF CredentialValid
       THEN /\ SendSlotRequest
            /\ UNCHANGED tokenPosts
       ELSE /\ SendTokenRequest
            /\ upc' = "tokwait"
            /\ UNCHANGED slotReqs
  /\ UNCHANGED <<now, access_token, token_expires_at, tokensIssued, tokenFails>>
  /\ UNCHANGED <<asset_url, upload_url, put, result, slotsIssued, sleeps, fails,
                 slots, puts, putOk, callerVars, imageVars, videoVars>>

StartUpload ==
  /\ upc = "idle"
  /\ BeginAttempt(0)

\* video_processing.py 165-166: the sleep ends and the loop goes on.
Wake ==
  /\ upc = "sleep"
  /\ BeginAttempt(attempt + 1)

\* The token endpoint answers 2xx to the uploader's ensure_authenticated.
UploadTokenOk ==
  /\ upc = "tokwait"
  /\ StoreToken
  /\ SendSlotRequest
  /\ UNCHANGED <<now, auth_lock, tokenPosts, tokenFails, callerVars, imageVars, videoVars>>
  /\ UNCHANGED <<attempt, asset_url, upload_url, put, result, slotsIssued, sleeps,
                 fails, slots, puts, putOk>>

\* The token request fails: the exception reaches the except block of the loop.
UploadTokenFailure ==
  /\ upc = "tokwait"
  /\ \E f \in Failures :
       /\ ExceptHandler("auth", f.kind, f.status, f.text)
       /\ IF f.kind = "http"
            THEN RaiseTokenError
            ELSE UNCHANGED <<access_token, token_expires_at, tokensIssued, tokenFails>>
  /\ UNCHANGED <<now, auth_lock, tokenPosts, callerVars, imageVars, videoVars>>
  /\ UNCHANGED <<attempt, asset_url, upload_url, put, result, slotsIssued, slotReqs,
                 slots, puts, putOk>>

\* video_processing.py 148-156: the slot request is answered below 400. The
\* session may lack either field; a complete one is followed by the reading of
\* the file and, when the file could be read, by the PUT.
SlotResponse ==
  /\ upc = "slotwait"
  /\ \E hasAsset \in BOOLEAN, hasUrl \in BOOLEAN, text \in SessionTexts,
        readable \in BOOLEAN :
       LET k == slotsIssued + 1
           a == IF hasAsset THEN k ELSE 0
           u == IF hasUrl THEN k ELSE 0
       IN  /\ slotsIssued' = k
           /\ asset_url' = a
           /\ upload_url' = DestinationOf(u, upload_url)
           /\ slots' = Append(slots, [attempt |-> attempt, asset |-> a, url |-> u])
           /\ IF a = 0 \/ upload_url' = 0
                THEN /\ ExceptHandler("slot", "malformed", 200, SessionErrorText(text))
                     /\ UNCHANGED <<put, puts>>
                ELSE IF ~readable
                THEN /\ ExceptHandler("read", "io", 0, ReadErrorText)
                     /\ UNCHANGED <<put, puts>>
                ELSE /\ put' = PutRequest(upload_url')
                     /\ puts' = Append(puts, [attempt |-> attempt, url |-> upload_url'])
                     /\ upc' = "putwait"
                     /\ UNCHANGED <<sleeps, fails>>
  /\ UNCHANGED videoVars
  /\ UNCHANGED <<authVars, callerVars, imageVars, attempt, result, slotReqs, putOk>>

\* The slot request fails (moloco_client.py 126-131, or a timeout).
SlotFailure ==
  /\ upc = "slotwait"
  /\ \E f \in Failures : ExceptHandler("slot", f.kind, f.status, f.text)
  /\ UNCHANGED videoVars
  /\ UNCHANGED <<authVars, callerVars, imageVars, attempt, asset_url, upload_url, put, result,
                 slotsIssued, slotReqs, slots, puts, putOk>>

\* moloco_client.py 241 and video_processing.py 157: the PUT succeeded.
PutResponse ==
  /\ upc = "putwait"
  /\ putOk' = put.url
  /\ result' = asset_url
  /\ put' = NoPut
  /\ upc' = "done"
  /\ UNCHANGED videoVars
  /\ UNCHANGED <<authVars, callerVars, imageVars, attempt, asset_url, upload_url, slotsIssued,
                 slotReqs, sleeps, fails, slots, puts>>

\* moloco_client.py 235-240, or a timeout of the PUT.
PutFailure ==
  /\ upc = "putwait"
  /\ \E f \in Failures : ExceptHandler("put", f.kind, f.status, f.text)
  /\ put' = NoPut
  /\ UNCHANGED videoVars
  /\ UNCHANGED <<authVars, callerVars, imageVars, attempt, asset_url, upload_url, result,
                 slotsIssued, slotReqs, slots, puts, putOk>>

\* ------------------------------------------------------- image_processing
\* constants.py 11-18.
VALID_IMAGE_SIZES ==
  { <<300, 250>>, <<320, 480>>, <<320, 50>>, <<728, 90>>,
    <<480, 320>>, <<768, 1024>>, <<1024, 768>>, <<300, 50>>, <<468, 60>> }

VALID_NATIVE_SIZES ==
  { <<1200, 628>>, <<1200, 600>>, <<720, 720>>, <<720, 960>>, <<720, 1280>>,
    <<1200, 1600>> }

\* constants.py 56-61.
is_valid_image_dimension(w, h) == <<w, h>> \in VALID_IMAGE_SIZES
is_valid_native_dimension(w, h) == <<w, h>> \in VALID_NATIVE_SIZES

Abs(x) == IF x < 0 THEN -x ELSE x

\* A scale list that starts at 1.
RetinaScalesFromOne == <<1, 2, 3, 4>>

\* image_processing.py 114: for scale in [2, 3, 4].
RetinaScales == <<2, 3, 4>>

\* image_processing.py 117: the tolerance in pixels.
RetinaTolerance == 5

\* image_processing.py 112: list(VALID_IMAGE_SIZES) + list(VALID_NATIVE_SIZES).
AllSizes == VALID_IMAGE_SIZES \cup VALID_NATIVE_SIZES

\* The entries that match with four times the tolerance.
RetinaMatchesLoose(w, h, scale) ==
  {e \in AllSizes : /\ Abs(w - e[1] * scale) <= 4 * RetinaTolerance
                    /\ Abs(h - e[2] * scale) <= 4 * RetinaTolerance}

\* The entries whose width matches, whatever the height.
RetinaMatchesWidthOnly(w, h, scale) ==
  {e \in AllSizes : Abs(w - e[1] * scale) <= RetinaTolerance}

\* The entries that match with a tolerance one pixel wider.
RetinaMatchesWide(w, h, scale) ==
  {e \in AllSizes : /\ Abs(w - e[1] * scale) <= RetinaTolerance + 1
                    /\ Abs(h - e[2] * scale) <= RetinaTolerance + 1}

\* image_processing.py 115-117: the entries that match (w, h) at one scale.
RetinaMatchesAt(w, h, scale) ==
  {e \in AllSizes : /\ Abs(w - e[1] * scale) <= RetinaTolerance
                    /\ Abs(h - e[2] * scale) <= RetinaTolerance}

NoRetina == [target_w |-> 0, target_h |-> 0, scale |-> 0, creative_type |-> "none"]

\* image_processing.py 95-124. The scales are tried in order and the first
\* entry that matches is returned. The entries are iterated in the order of a
\* Python set, which the language leaves open: the result is any entry that
\* matches at the first scale with a match. The set is empty for None.
detect_retina_size(w, h) ==
  LET hits == {i \in 1..Len(RetinaScales) : RetinaMatchesAt(w, h, RetinaScales[i]) # {}}
  IN  IF hits = {}
        THEN {}
        ELSE LET first == CHOOSE i \in hits : \A j \in hits : i <= j
                 scale == RetinaScales[first]
             IN  {[target_w |-> e[1], target_h |-> e[2], scale |-> scale,
                   creative_type |-> IF e \in VALID_IMAGE_SIZES THEN "IMAGE" ELSE "NATIVE"] :
                     e \in RetinaMatchesAt(w, h, scale)}

\* image_processing.py 178: the budget of prepare_image_for_upload, in KB.
MaxKB == 500
BytesPerKB == 1024

\* A budget that a file of exactly 500 KB exceeds.
OverBudgetAtLimit(bytes) == bytes >= MaxKB * BytesPerKB

\* image_processing.py 178, 182: file_size_kb > 500, with file_size_kb = bytes / 1024.
OverBudget(bytes) == bytes > MaxKB * BytesPerKB

\* A flag that needs the file to be strictly under the budget.
UploadReadyStrict(bytes) == bytes < MaxKB * BytesPerKB

\* image_processing.py 204: upload_ready = file_size_kb <= 500.
UploadReady(bytes) == bytes <= MaxKB * BytesPerKB

\* image_processing.py 163: large enough to be source material.
SourceMinimum == 640
is_source_either(w, h) == w >= SourceMinimum \/ h >= SourceMinimum
is_source(w, h) == w >= SourceMinimum /\ h >= SourceMinimum

\* image_processing.py 185-192.
CreativeType(w, h) ==
  IF is_valid_image_dimension(w, h) THEN "IMAGE"
  ELSE IF is_valid_native_dimension(w, h) THEN "NATIVE"
  ELSE IF is_source(w, h) THEN "IMAGE_SOURCE"
  ELSE "UNKNOWN"

\* Paths. A path is the name without its extension (a sequence: the stem and
\* the suffixes added to it) and the extension.
NoPath == [base |-> <<>>, ext |-> ""]

\* os.path.splitext(path)[0].
SplitextBase(path) == path.base

\* A downscale that writes over its input.
RetinaPathInPlace(path, tw, th) == path

\* image_processing.py 150-151: f"{base}_{target_w}x{target_h}.jpg".
RetinaPath(path, tw, th) ==
  [base |-> Append(SplitextBase(path), <<"_", tw, "x", th>>), ext |-> "jpg"]

\* A compression that writes over its input.
CompressedPathInPlace(path) == path

\* image_processing.py 77-78: base + "_compressed.jpg".
CompressedPath(path) ==
  [base |-> Append(SplitextBase(path), <<"_compressed">>), ext |-> "jpg"]

\* image_processing.py 60-63: the default output path of resize_with_letterbox,
\* the directory of the source joined with f"{base}_{target_w}x{target_h}.jpg".
LetterboxPath(path, tw, th) ==
  [base |-> Append(SplitextBase(path), <<"_", tw, "x", th>>), ext |-> "jpg"]

\* A mapping with a steeper slope.
QualityToQvSteep(q) ==
  LET v == 31 - (q * 2) \div 10 IN IF v < 2 THEN 2 ELSE v

\* image_processing.py 83: qv = max(2, int(31 - quality * 0.3)); the qualities
\* are multiples of 10, for which the product is exact.
QualityToQv(q) ==
  LET v == 31 - (q * 3) \div 10 IN IF v < 2 THEN 2 ELSE v

\* image_processing.py 81: range(90, 40, -10).
FirstQuality == 90
QualityStep == 10
QualityStop == 40

\* image_processing.py 90: the last resort's -q:v.
LastResortQv == 25

\* The inputs: the file names, the dimensions and the byte sizes tried.
InputPaths == {[base |-> <<"a">>, ext |-> "jpg"], [base |-> <<"a">>, ext |-> "png"]}

ScaledCatalog == {<<e[1] * k, e[2] * k>> : e \in AllSizes, k \in {2, 3, 4}}

\* Dimensions half way between two scaled entries that lie close together:
\* 2 x (300, 50) and 2 x (320, 50), 2 x (1200, 600) and 2 x (1200, 628),
\* 3 x (320, 50) and 2 x (468, 60).
NearTies == {<<620, 100>>, <<2400, 1228>>, <<948, 135>>}

TestDims ==
  AllSizes \cup ScaledCatalog
    \cup {<<d[1] + 6, d[2]>> : d \in ScaledCatalog}
    \cup {<<e[1] * 2 + 5, e[2] * 2 - 5>> : e \in AllSizes}
    \cup NearTies
    \cup {<<0, 0>>, <<960, 1440>>, <<1000, 1500>>, <<640, 640>>, <<639, 640>>,
          <<100, 100>>}

FileSizes == {100 * BytesPerKB, MaxKB * BytesPerKB, MaxKB * BytesPerKB + 1, 640 * BytesPerKB}

NoReport ==
  [original_path |-> NoPath, corrected_path |-> NoPath,
   original_dimensions |-> <<0, 0>>, corrected_dimensions |-> <<0, 0>>,
   size |-> 0, creative_type |-> "none", was_retina |-> FALSE,
   was_compressed |-> FALSE, warnings |-> <<>>, upload_ready |-> FALSE]

WriteFile(path, size, dims) ==
  [q \in (DOMAIN files) \cup {path} |->
     IF q = path THEN [size |-> size, dims |-> dims] ELSE files[q]]

\* image_processing.py 194-205: the dict returned. size is the byte size
\* behind size_kb.
Return(path, size, warns) ==
  /\ report' = [original_path |-> file_path, corrected_path |-> path,
                original_dimensions |-> probed, corrected_dimensions |-> corrected_dims,
                size |-> size,
                creative_type |-> CreativeType(corrected_dims[1], corrected_dims[2]),
                was_retina |-> retina # NoRetina,
                was_compressed |-> path # file_path \/ size # files[file_path].size,
                warnings |-> warns, upload_ready |-> UploadReady(size)]
  /\ corrected_path' = path
  /\ file_size' = size
  /\ warnings' = warns
  /\ ipc' = "done"

\* image_processing.py 136-152, up to the encoder call of the downscale, for a
\* file of dimensions d and sz bytes.
BeginPrepare(path, d, sz) ==
  /\ file_path' = path
  /\ probed' = d
  /\ file_size' = sz
  /\ corrected_dims' = d
  /\ encoderLog' = <<>>
  /\ IF detect_retina_size(d[1], d[2]) = {}
       THEN /\ retina' = NoRetina
            /\ warnings' = <<>>
            /\ corrected_path' = path
            /\ ipc' = "classify"
       ELSE \E r \in detect_retina_size(d[1], d[2]) :
            /\ retina' = r
            /\ warnings' = <<"retina">>
            /\ corrected_path' = RetinaPath(path, r.target_w, r.target_h)
            /\ ipc' = "resize"
  /\ calls' = calls + 1
  /\ UNCHANGED <<quality, report>>
  /\ UNCHANGED <<authVars, callerVars, uploadVars, videoVars>>

\* prepare_image_for_upload is called on a file of the environment: its name,
\* its dimensions and its size are the environment's.
PrepareBegin ==
  /\ ipc = "idle"
  /\ \E path \in InputPaths, d \in TestDims, sz \in FileSizes :
       /\ files' = [q \in {path} |-> [size |-> sz, dims |-> d]]
       /\ BeginPrepare(path, d, sz)
  /\ UNCHANGED prev_report

\* prepare_image_for_upload is called again, on the path the last call
\* returned.
PrepareAgain ==
  /\ ipc = "done"
  /\ calls < MaxPrepareCalls
  /\ LET path == report.corrected_path
     IN  BeginPrepare(path, files[path].dims, files[path].size)
  /\ prev_report' = report
  /\ UNCHANGED files

\* image_processing.py 153-158: the downscale succeeded; its output has the
\* size the encoder gave it.
RetinaResize ==
  /\ ipc = "resize"
  /\ \E sz \in FileSizes :
       /\ files' = WriteFile(corrected_path, sz, <<retina.target_w, retina.target_h>>)
       /\ file_size' = sz
  /\ corrected_dims' = <<retina.target_w, retina.target_h>>
  /\ encoderLog' = Append(encoderLog, [input |-> file_path, output |-> corrected_path,
                                       setting |-> 2])
  /\ ipc' = "classify"
  /\ UNCHANGED <<file_path, probed, retina, corrected_path, warnings, quality, report>>
  /\ UNCHANGED <<calls, prev_report>>
  /\ UNCHANGED <<authVars, callerVars, uploadVars, videoVars>>

\* image_processing.py 153-156: check=True raises when the encoder fails.
RetinaResizeFails ==
  /\ ipc = "resize"
  /\ encoderLog' = Append(encoderLog, [input |-> file_path, output |-> corrected_path,
                                       setting |-> 2])
  /\ ipc' = "raised"
  /\ UNCHANGED <<files, file_path, probed, retina, corrected_path, corrected_dims,
                 file_size, warnings, quality, report>>
  /\ UNCHANGED <<calls, prev_report>>
  /\ UNCHANGED <<authVars, callerVars, uploadVars, videoVars>>

\* The dimensions of the sources that are letterboxed.
SourceDims == {<<1000, 1500>>, <<640, 640>>}

\* image_processing.py 53-68: resize_with_letterbox without output_path, the
\* encoder succeeding. The output path is returned.
Letterbox ==
  /\ ipc = "idle"
  /\ \E path \in InputPaths, d \in SourceDims, e \in VALID_IMAGE_SIZES, sz \in FileSizes,
         out \in FileSizes :
       LET output_path == LetterboxPath(path, e[1], e[2])
       IN  /\ file_path' = path
           /\ files' = [q \in {path, output_path} |->
                          IF q = output_path THEN [size |-> out, dims |-> e]
                                             ELSE [size |-> sz, dims |-> d]]
           /\ encoderLog' = <<[input |-> path, output |-> output_path, setting |-> 2]>>
           /\ corrected_path' = output_path
  /\ ipc' = "letterboxed"
  /\ UNCHANGED <<probed, retina, corrected_dims, file_size, warnings, quality, report,
                 calls, prev_report>>
  /\ UNCHANGED <<authVars, callerVars, uploadVars, videoVars>>

\* image_processing.py 66-67: check=True raises when the encoder fails.
LetterboxFails ==
  /\ ipc = "idle"
  /\ \E path \in InputPaths, d \in SourceDims, e \in VALID_IMAGE_SIZES, sz \in FileSizes :
       /\ file_path' = path
       /\ files' = [q \in {path} |-> [size |-> sz, dims |-> d]]
       /\ encoderLog' = <<[input |-> path, output |-> LetterboxPath(path, e[1], e[2]),
                           setting |-> 2]>>
  /\ ipc' = "raised"
  /\ UNCHANGED <<probed, retina, corrected_path, corrected_dims, file_size, warnings,
                 quality, report, calls, prev_report>>
  /\ UNCHANGED <<authVars, callerVars, uploadVars, videoVars>>

\* image_processing.py 165-175: the warning of an asset in neither catalog.
ClassWarnings(w, h) ==
  IF ~is_valid_image_dimension(w, h) /\ ~is_valid_native_dimension(w, h)
    THEN IF is_source(w, h) THEN <<"source">> ELSE <<"unknown">>
    ELSE <<>>

\* A rule that compresses the standard sizes alone.
ShouldCompressImageOnly(bytes, w, h) ==
  OverBudget(bytes) /\ is_valid_image_dimension(w, h)

\* A rule that compresses whatever is over the budget.
ShouldCompressAny(bytes, w, h) == OverBudget(bytes)

\* image_processing.py 178: whether compress_image is called.
ShouldCompress(bytes, w, h) ==
  /\ OverBudget(bytes)
  /\ is_valid_image_dimension(w, h) \/ is_valid_native_dimension(w, h)

\* image_processing.py 160-205 up to the first encoder call of compress_image
\* (73-81), or to the return when nothing is compressed.
Classify ==
  /\ ipc = "classify"
  /\ LET w == corrected_dims[1]
         h == corrected_dims[2]
         warns == warnings \o ClassWarnings(w, h)
     IN  IF ShouldCompress(file_size, w, h)
           THEN /\ warnings' = Append(warns, "compressing")
                /\ IF ~OverBudget(files[corrected_path].size)
                     THEN Return(corrected_path, files[corrected_path].size, warnings')
                     ELSE /\ quality' = FirstQuality
                          /\ ipc' = "compress"
                          /\ UNCHANGED <<corrected_path, file_size, report>>
           ELSE /\ Return(corrected_path, file_size, warns)
                /\ UNCHANGED quality
  /\ UNCHANGED <<files, file_path, probed, retina, corrected_dims, encoderLog>>
  /\ UNCHANGED <<calls, prev_report>>
  /\ UNCHANGED <<authVars, callerVars, uploadVars, videoVars>>

\* A return after compress_image that adds no warning.
AfterCompressSilent(path, fs) == Return(path, fs[path].size, warnings)

\* image_processing.py 180-183: compress_image returned path; the size is read
\* again and a file still over the budget adds a warning.
AfterCompress(path, fs) ==
  LET size == fs[path].size
  IN  Return(path, size,
             IF OverBudget(size) THEN Append(warnings, "still_over") ELSE warnings)

\* image_processing.py 81-87: one round of the quality loop, the encoder
\* succeeding.
CompressAttempt ==
  /\ ipc = "compress"
  /\ \E sz \in FileSizes :
       LET out == CompressedPath(corrected_path)
       IN  /\ files' = WriteFile(out, sz, corrected_dims)
           /\ encoderLog' = Append(encoderLog, [input |-> corrected_path, output |-> out,
                                                setting |-> QualityToQv(quality)])
           /\ IF ~OverBudget(sz)
                THEN /\ AfterCompress(out, files')
                     /\ UNCHANGED quality
                ELSE /\ quality' = quality - QualityStep
                     /\ ipc' = IF quality - QualityStep > QualityStop
                                 THEN "compress" ELSE "lastresort"
                     /\ UNCHANGED <<corrected_path, file_size, warnings, report>>
  /\ UNCHANGED <<file_path, probed, retina, corrected_dims>>
  /\ UNCHANGED <<calls, prev_report>>
  /\ UNCHANGED <<authVars, callerVars, uploadVars, videoVars>>

\* image_processing.py 89-92: the last resort, the encoder succeeding.
CompressLastResort ==
  /\ ipc = "lastresort"
  /\ \E sz \in FileSizes :
       LET out == CompressedPath(corrected_path)
       IN  /\ files' = WriteFile(out, sz, corrected_dims)
           /\ encoderLog' = Append(encoderLog, [input |-> corrected_path, output |-> out,
                                                setting |-> LastResortQv])
           /\ AfterCompress(out, files')
  /\ UNCHANGED <<file_path, probed, retina, corrected_dims, quality>>
  /\ UNCHANGED <<calls, prev_report>>
  /\ UNCHANGED <<authVars, callerVars, uploadVars, videoVars>>

\* image_processing.py 84-85, 90-91: check=True raises when the encoder fails.
CompressFails ==
  /\ ipc \in {"compress", "lastresort"}
  /\ encoderLog' = Append(encoderLog,
       [input |-> corrected_path, output |-> CompressedPath(corrected_path),
        setting |-> IF ipc = "compress" THEN QualityToQv(quality) ELSE LastResortQv])
  /\ ipc' = "raised"
  /\ UNCHANGED <<files, file_path, probed, retina, corrected_path, corrected_dims,
                 file_size, warnings, quality, report>>
  /\ UNCHANGED <<calls, prev_report>>
  /\ UNCHANGED <<authVars, callerVars, uploadVars, videoVars>>

\* ------------------------------------------------- video_processing.py
\* The file at output_path is its size in bytes, or NoFile when there is none.
\* tempfile.mktemp gives a name at which no file exists.
NoFile == -1

\* The levels from the coarsest to the finest.
CrfLevelsDescending == <<38, 33, 28, 23>>

\* video_processing.py 101: for crf in (23, 28, 33, 38).
CrfLevels == <<23, 28, 33, 38>>

\* video_processing.py 123: if crf < 38.
LastCrf == 38

\* video_processing.py 99: max_bytes = max_size_mb * 1024 * 1024.
BytesPerMB == 1024 * 1024

\* The budgets tried, in MB, and the sizes an output can have under a budget.
MaxSizesMB == {1, 10}
VideoSizes(max) == {0, max, max + 1, 2 * max}

\* An acceptance test that looks at the file's presence alone.
AcceptedAny(f, max) == f # NoFile

\* video_processing.py 119: os.path.isfile(output_path) and getsize <= max_bytes.
Accepted(f, max) == f # NoFile /\ f <= max

\* video_processing.py 91-99.
TranscodeBegin ==
  /\ vpc = "idle"
  /\ \E mb \in MaxSizesMB : max_bytes' = mb * BytesPerMB
  /\ vop' = "transcode"
  /\ vpc' = "encode"
  /\ crfIdx' = 1
  /\ output_file' = NoFile
  /\ UNCHANGED <<videoLog, video_result, unlink, probe, duration, vid_dims, native_size>>
  /\ UNCHANGED <<authVars, callerVars, uploadVars, imageVars>>

\* An end of the call that leaves whatever is at output_path.
EndTranscodeKeepsFile(f) ==
  /\ output_file' = f
  /\ unlink' = "none"
  /\ video_result' = "none"
  /\ vpc' = "done"

\* video_processing.py 128-135: after the loop a file at output_path is
\* unlinked, a failure of os.unlink is swallowed, and None is returned.
EndTranscode(f) ==
  /\ \E unlinked \in BOOLEAN :
       /\ output_file' = IF f # NoFile /\ unlinked THEN NoFile ELSE f
       /\ unlink' = IF f = NoFile THEN "none" ELSE IF unlinked THEN "ok" ELSE "failed"
  /\ video_result' = "none"
  /\ vpc' = "done"

\* video_processing.py 101-125: one level, the encoder exiting with 0. The
\* output is accepted, or the next level is tried; reading the size of a file
\* that is not there raises at line 124 and ends the loop.
TranscodeEncoded ==
  /\ vpc = "encode"
  /\ \E f \in VideoSizes(max_bytes) \cup {NoFile} :
       /\ videoLog' = Append(videoLog, [crf |-> CrfLevels[crfIdx], ok |-> TRUE, size |-> f])
       /\ IF Accepted(f, max_bytes)
            THEN /\ output_file' = f
                 /\ video_result' = "path"
                 /\ vpc' = "done"
                 /\ UNCHANGED <<crfIdx, unlink>>
            ELSE IF CrfLevels[crfIdx] < LastCrf /\ f # NoFile
                   THEN /\ output_file' = f
                        /\ crfIdx' = crfIdx + 1
                        /\ UNCHANGED <<vpc, video_result, unlink>>
                   ELSE /\ EndTranscode(f)
                        /\ UNCHANGED crfIdx
  /\ UNCHANGED <<vop, max_bytes, probe, duration, vid_dims, native_size>>
  /\ UNCHANGED <<authVars, callerVars, uploadVars, imageVars>>

\* video_processing.py 117, 126-128: the encoder exits with an error or runs
\* into the timeout; the loop is left. What the encoder left at output_path is
\* the file of the level before or a partial file.
TranscodeFails ==
  /\ vpc = "encode"
  /\ \E f \in VideoSizes(max_bytes) \cup {output_file} :
       /\ videoLog' = Append(videoLog, [crf |-> CrfLevels[crfIdx], ok |-> FALSE, size |-> f])
       /\ EndTranscode(f)
  /\ UNCHANGED <<vop, max_bytes, crfIdx, probe, duration, vid_dims, native_size>>
  /\ UNCHANGED <<authVars, callerVars, uploadVars, imageVars>>

\* One second, in the unit of duration.
OneSecond == 1000

\* The durations a probe reports, and the ways a probe ends: exit 0 with a
\* number or with text that is no number, a non-zero exit, the timeout.
Durations == {0, 600, 1000, 1001, 8000}
ProbeEnds == {"number", "unparsable", "nonzero", "timeout"}

\* A handler that lets the exception through.
EndcardHandlerRaises == "raised"

\* video_processing.py 52-54: except Exception prints and None is returned.
EndcardHandler == "none"

\* A test that seeks in a video of one second.
UsesSeekFromOne(d) == d >= OneSecond

\* video_processing.py 34: if duration > 1.
UsesSeek(d) == d > OneSecond

\* video_processing.py 34-48: the extraction command for a duration.
ExtractCommand(d) ==
  IF UsesSeek(d)
    THEN [seek |-> TRUE, ss |-> IF d - OneSecond > 0 THEN d - OneSecond ELSE 0]
    ELSE [seek |-> FALSE, ss |-> 0]

\* video_processing.py 18-24.
ExtractBegin ==
  /\ vpc = "idle"
  /\ vop' = "endcard"
  /\ vpc' = "probe"
  /\ output_file' = NoFile
  /\ UNCHANGED <<max_bytes, crfIdx, videoLog, video_result, unlink, probe, duration,
                 vid_dims, native_size>>
  /\ UNCHANGED <<authVars, callerVars, uploadVars, imageVars>>

\* video_processing.py 26-32: the probe ends. float() raises on text that is
\* no number and subprocess.run raises on the timeout; a non-zero exit gives
\* duration 0.
ProbeDone ==
  /\ vpc = "probe"
  /\ \E end \in ProbeEnds, d \in Durations :
       /\ probe' = end
       /\ IF end \in {"unparsable", "timeout"}
            THEN /\ video_result' = EndcardHandler
                 /\ vpc' = "done"
                 /\ UNCHANGED duration
            ELSE /\ duration' = IF end = "number" THEN d ELSE 0
                 /\ vpc' = "extract"
                 /\ UNCHANGED video_result
  /\ UNCHANGED <<vop, max_bytes, crfIdx, output_file, videoLog, unlink, vid_dims, native_size>>
  /\ UNCHANGED <<authVars, callerVars, uploadVars, imageVars>>

\* The sizes of the file an extraction leaves.
FrameSizes == {NoFile, 0, 4096}

\* video_processing.py 34-51, 54: the extraction command exits with 0; the
\* path is returned when a file with content is there.
ExtractRan ==
  /\ vpc = "extract"
  /\ \E f \in FrameSizes :
       /\ output_file' = f
       /\ videoLog' = Append(videoLog, [cmd |-> ExtractCommand(duration), ok |-> TRUE,
                                        size |-> f])
       /\ video_result' = IF f # NoFile /\ f > 0 THEN "path" ELSE "none"
  /\ vpc' = "done"
  /\ UNCHANGED <<vop, max_bytes, crfIdx, unlink, probe, duration, vid_dims, native_size>>
  /\ UNCHANGED <<authVars, callerVars, uploadVars, imageVars>>

\* video_processing.py 36-48, 52-54: the extraction command exits with an
\* error or runs into the timeout.
ExtractFails ==
  /\ vpc = "extract"
  /\ \E f \in FrameSizes :
       /\ output_file' = f
       /\ videoLog' = Append(videoLog, [cmd |-> ExtractCommand(duration), ok |-> FALSE,
                                        size |-> f])
  /\ video_result' = EndcardHandler
  /\ vpc' = "done"
  /\ UNCHANGED <<vop, max_bytes, crfIdx, unlink, probe, duration, vid_dims, native_size>>
  /\ UNCHANGED <<authVars, callerVars, uploadVars, imageVars>>

\* The native boxes, and <<>> for None.
NoBox == <<>>

\* A mapping that takes a square for a landscape.
get_native_video_size_ge(vid_w, vid_h) ==
  IF vid_w >= vid_h THEN <<1280, 720>>
  ELSE IF vid_h > vid_w THEN <<720, 1280>>
  ELSE NoBox

\* video_processing.py 74-88.
get_native_video_size(vid_w, vid_h) ==
  IF vid_w > vid_h THEN <<1280, 720>>
  ELSE IF vid_h > vid_w THEN <<720, 1280>>
  ELSE IF vid_w = vid_h /\ vid_w > 0 THEN <<720, 720>>
  ELSE NoBox

\* The widths and heights tried.
VideoDims == {-5, -3, 0, 720, 1080, 1920}

\* video_processing.py 74-88: the call.
NativeSize ==
  /\ vpc = "idle"
  /\ \E w \in VideoDims, h \in VideoDims :
       /\ vid_dims' = <<w, h>>
       /\ native_size' = get_native_video_size(w, h)
  /\ vop' = "native"
  /\ vpc' = "done"
  /\ UNCHANGED <<max_bytes, crfIdx, output_file, videoLog, video_result, unlink, probe,
                 duration>>
  /\ UNCHANGED <<authVars, callerVars, uploadVars, imageVars>>

vars == <<authVars, callerVars, uploadVars, imageVars, videoVars>>

Init ==
  /\ now = 0
  /\ access_token = NoToken
  /\ token_expires_at = NoExpiry
  /\ auth_lock = NoOne
  /\ tokensIssued = 0
  /\ tokenPosts = 0
  /\ tokenFails = 0
  /\ pc = [p \in Callers |-> "idle"]
  /\ inflight = [p \in Callers |-> NoRequest]
  /\ outcome = [p \in Callers |-> "none"]
  /\ upc = "idle"
  /\ attempt = 0
  /\ asset_url = 0
  /\ upload_url = 0
  /\ put = NoPut
  /\ result = 0
  /\ slotsIssued = 0
  /\ slotReqs = 0
  /\ sleeps = <<>>
  /\ fails = <<>>
  /\ slots = <<>>
  /\ puts = <<>>
  /\ putOk = 0
  /\ files = <<>>
  /\ ipc = "idle"
  /\ file_path = NoPath
  /\ probed = <<0, 0>>
  /\ retina = NoRetina
  /\ corrected_path = NoPath
  /\ corrected_dims = <<0, 0>>
  /\ file_size = 0
  /\ warnings = <<>>
  /\ quality = 0
  /\ encoderLog = <<>>
  /\ report = NoReport
  /\ calls = 0
  /\ prev_report = NoReport
  /\ vpc = "idle"
  /\ vop = "none"
  /\ max_bytes = 0
  /\ crfIdx = 0
  /\ output_file = NoFile
  /\ videoLog = <<>>
  /\ video_result = "pending"
  /\ unlink = "none"
  /\ probe = "none"
  /\ duration = 0
  /\ vid_dims = <<0, 0>>
  /\ native_size = NoBox

Next ==
  \/ \E p \in Callers : Call(p)
  \/ \E p \in Callers : TokenOk(p)
  \/ \E p \in Callers : TokenError(p)
  \/ \E p \in Callers : ApiResponse(p)
  \/ Tick

Spec == Init /\ [][Next]_vars

\* The token endpoint answers every request: the HTTP client has a timeout, so
\* the await of line 88 ends.
FairSpec == Spec /\ \A p \in Callers : WF_vars(TokenOk(p) \/ TokenError(p))

UploadNext ==
  \/ StartUpload
  \/ UploadTokenOk
  \/ UploadTokenFailure
  \/ SlotResponse
  \/ SlotFailure
  \/ PutResponse
  \/ PutFailure
  \/ Wake
  \/ Tick

UploadSpec == Init /\ [][UploadNext]_vars

\* The steps of the upload itself. Every network await ends (the client has a
\* 60 s timeout) and asyncio.sleep returns, so the coroutine is always resumed.
UploadStep ==
  \/ UploadTokenOk
  \/ UploadTokenFailure
  \/ SlotResponse
  \/ SlotFailure
  \/ PutResponse
  \/ PutFailure
  \/ Wake

FairUploadSpec == UploadSpec /\ WF_vars(UploadStep)

ImageNext ==
  \/ PrepareBegin
  \/ PrepareAgain
  \/ Letterbox
  \/ LetterboxFails
  \/ RetinaResize
  \/ RetinaResizeFails
  \/ Classify
  \/ CompressAttempt
  \/ CompressLastResort
  \/ CompressFails

ImageSpec == Init /\ [][ImageNext]_vars

VideoNext ==
  \/ TranscodeBegin
  \/ TranscodeEncoded
  \/ TranscodeFails
  \/ ExtractBegin
  \/ ProbeDone
  \/ ExtractRan
  \/ ExtractFails
  \/ NativeSize

VideoSpec == Init /\ [][VideoNext]_vars

\* The image and the video helpers together. They are synchronous functions:
\* a call runs to its end before another helper is called, so the steps of two
\* calls never interleave.
MediaNext ==
  \/ vpc = "idle" /\ ImageNext
  \/ ipc = "idle" /\ VideoNext

MediaSpec == Init /\ [][MediaNext]_vars

\* ===================================================================== claims
\* ---------------------------------------------------------------------- C1
TokenRequestsOutstanding == Cardinality({p \in Callers : pc[p] = "tokwait"})

\* C1: concurrent callers that find the credential absent or expired send one
\* token-issuance request between them: never two requests outstanding, and,
\* for the callers arriving at time 0 with no credential and no failed
\* request, one request in total.
C1_SingleFlight ==
  /\ TokenRequestsOutstanding <= 1
  /\ (now = 0 /\ tokenFails = 0) => tokenPosts <= 1

\* ---------------------------------------------------------------------- C2
\* C2: every signed request carries a token that is present and whose recorded
\* expiry is more than 5 minutes after the moment the header was built.
C2_SignedWithMargin ==
  \A p \in Callers :
    pc[p] = "reqwait" =>
      /\ inflight[p].token # NoToken
      /\ inflight[p].expires # NoExpiry
      /\ inflight[p].expires - inflight[p].builtAt > RefreshMarginMinutes

\* A caller signed on the fast path with 10 minutes left while another caller,
\* arriving later, is waiting for its token request.
C2_Witness ==
  \E p, q \in Callers :
    /\ p # q
    /\ pc[p] = "reqwait"
    /\ inflight[p].expires - inflight[p].builtAt = 10
    /\ pc[q] = "tokwait"

\* ---------------------------------------------------------------------- C3
\* C3: a token request answered with an error raises to its caller and leaves
\* access_token, token_expires_at and the lock as they were; the caller's next
\* call, finding no valid credential, sends a new token request, and a token
\* request answered with success lets its call go on with the new credential.
C3_FailedRefreshDoesNotPoison ==
  [][\A p \in Callers :
       /\ (pc[p] = "tokwait" /\ pc'[p] = "idle") =>
            /\ access_token' = access_token
            /\ token_expires_at' = token_expires_at
            /\ auth_lock' = NoOne
            /\ outcome'[p] = "autherror"
       /\ (pc[p] = "idle" /\ pc'[p] # "idle" /\ outcome[p] = "autherror"
             /\ ~CredentialValid) =>
            /\ pc'[p] = "tokwait"
            /\ tokenPosts' = tokenPosts + 1
       /\ (pc[p] = "tokwait" /\ pc'[p] # "tokwait" /\ pc'[p] # "idle") =>
            /\ pc'[p] = "reqwait"
            /\ access_token' # NoToken
            /\ inflight'[p].token = access_token'
            /\ token_expires_at' = now + TokenLifetimeMinutes
  ]_vars

\* A caller whose last call ended with a failed refresh of an expired
\* credential has called again and been given a new token.
C3_Witness ==
  \E p \in Callers :
    /\ outcome[p] = "autherror"
    /\ pc[p] = "reqwait"
    /\ tokenFails >= 1
    /\ tokensIssued >= 2
    /\ inflight[p].token = tokensIssued

\* ---------------------------------------------------------------------- C4
Finished == upc \in {"done", "failed"}

\* HTTP 502, HTTP 503 or a network timeout, at any of the three requests.
TransientFailure(f) ==
  \/ f.kind = "timeout"
  \/ f.kind = "http" /\ f.status \in {502, 503}

\* The same, with an error response of the token endpoint counted as an
\* authentication failure and not as a transient one.
TransientUploadFailure(f) ==
  \/ f.kind = "timeout"
  \/ f.stage \in {"slot", "put"} /\ f.kind = "http" /\ f.status \in {502, 503}

AuthStageFails == Cardinality({i \in 1..Len(fails) : fails[i].stage = "auth"})

ExpectedDelays(k) == SubSeq(<<1, 2>>, 1, k)

\* C4 as stated: k transient failures and then a success make k+1 slot
\* requests and k delays 1s, 2s; three transient failures raise after 3 slot
\* requests and 2 delays.
C4_RetryBudget ==
  (\A i \in 1..Len(fails) : TransientUploadFailure(fails[i])) =>
    /\ upc = "done" =>
         /\ Len(fails) \in {0, 1, 2}
         /\ slotReqs = Len(fails) + 1
         /\ sleeps = ExpectedDelays(Len(fails))
    /\ (Finished /\ Len(fails) = retries) =>
         /\ upc = "failed"
         /\ slotReqs = retries
         /\ sleeps = <<1, 2>>

UploadSafety ==
  /\ attempt \in 0..(retries - 1)
  /\ Len(fails) <= retries
  /\ slotReqs <= retries
  /\ Len(sleeps) <= retries - 1
  /\ upc = "sleep" => (Len(sleeps) = Len(fails) /\ attempt < retries - 1)
  /\ Finished => Len(sleeps) = attempt
  /\ (\A i \in 1..Len(fails) : TransientFailure(fails[i])) =>
       /\ upc = "done" =>
            /\ Len(fails) \in {0, 1, 2}
            /\ attempt + 1 = Len(fails) + 1
            /\ slotReqs = Len(fails) + 1 - AuthStageFails
            /\ sleeps = ExpectedDelays(Len(fails))
       /\ Len(fails) = retries =>
            /\ upc = "failed"
            /\ slotReqs = retries - AuthStageFails
            /\ sleeps = <<1, 2>>
       /\ upc = "failed" => Len(fails) = retries

\* C4, amended: k failures by HTTP 502/503 or timeout and then a success make
\* k+1 attempts and k delays 1s, 2s, with one slot request per attempt that
\* was not stopped at the token request; three such failures raise after 3
\* attempts and 2 delays; no delay follows the final attempt; the upload
\* terminates.
C4_RetryBudgetAmended ==
  /\ []UploadSafety
  /\ (upc # "idle") ~> Finished

\* Two transient failures, one of them at the token request, then a success.
C4_Witness ==
  /\ upc = "done"
  /\ Len(fails) = 2
  /\ \A i \in 1..2 : TransientFailure(fails[i])
  /\ AuthStageFails = 1
  /\ sleeps = <<1, 2>>
  /\ slotReqs = 2

\* ---------------------------------------------------------------------- C5
NonTransientUploadFailure(f) ==
  /\ f.stage \in {"slot", "put"}
  /\ \/ f.kind = "malformed"
     \/ f.kind = "http" /\ f.status \notin {502, 503}

\* C5: a failure of the slot request or the PUT that is not HTTP 502/503 or a
\* timeout ends the upload where it occurs: it is the last failure, the upload
\* has failed, and no delay follows it.
C5_NonTransientIsFatal ==
  \A i \in 1..Len(fails) :
    NonTransientUploadFailure(fails[i]) =>
      /\ i = Len(fails)
      /\ upc = "failed"
      /\ Len(sleeps) = i - 1

C7_PutCarriesNoAuthorization ==
  upc = "putwait" =>
    /\ "Authorization" \notin put.headers
    /\ put.headers = {"Content-Type"}

\* A PUT of a retry, sent after the token was refreshed a second time.
C7_Witness ==
  /\ upc = "putwait"
  /\ Len(fails) >= 1
  /\ tokensIssued >= 2

\* ---------------------------------------------------------------------- C8
\* C8: an error response of the token endpoint ends the upload: it is the last
\* failure, the upload has failed, and no delay follows it.
C8_AuthFailureIsFatal ==
  \A i \in 1..Len(fails) :
    (fails[i].stage = "auth" /\ fails[i].kind = "http") =>
      /\ i = Len(fails)
      /\ upc = "failed"
      /\ Len(sleeps) = i - 1

\* ---------------------------------------------------------------------- C9
\* C9: in every report, upload_ready is true exactly when the file at
\* corrected_path is at most 500 KB (500 * 1024 bytes).
C9_UploadReadyIffWithinBudget ==
  ipc = "done" =>
    /\ report.corrected_path \in DOMAIN files
    /\ report.upload_ready <=> (files[report.corrected_path].size <= 500 * 1024)

\* A retina image that was downscaled and whose compression ended on a file
\* of exactly 500 KB.
C9_Witness ==
  /\ ipc = "done"
  /\ report.was_retina
  /\ Len(encoderLog) = 7
  /\ report.corrected_path # report.original_path
  /\ files[report.corrected_path].size = 500 * 1024
  /\ report.upload_ready

\* --------------------------------------------------------------------- C10
\* C10: dimensions equal to a catalog entry are no retina match, are left as
\* they are, and are reported with the entry's category: IMAGE for the
\* standard catalog, NATIVE for the native one.
C10_ExactCatalogEntry ==
  /\ (ipc # "idle" /\ probed \in AllSizes) =>
       /\ retina = NoRetina
       /\ corrected_dims = probed
  /\ (ipc = "done" /\ report.original_dimensions \in AllSizes) =>
       /\ ~report.was_retina
       /\ report.corrected_dimensions = report.original_dimensions
       /\ report.original_dimensions \in VALID_IMAGE_SIZES => report.creative_type = "IMAGE"
       /\ report.original_dimensions \in VALID_NATIVE_SIZES => report.creative_type = "NATIVE"

\* A 1200x1600 file over the budget, reported NATIVE after compression.
C10_Witness ==
  /\ ipc = "done"
  /\ report.original_dimensions = <<1200, 1600>>
  /\ report.creative_type = "NATIVE"
  /\ Len(encoderLog) > 0

C12_SourceExample ==
  (/\ ipc = "done"
   /\ report.original_dimensions = <<960, 1440>>
   /\ files[report.original_path].size = 640 * BytesPerKB) =>
    /\ report.creative_type = "IMAGE_SOURCE"
    /\ report.warnings = <<"source">>
    /\ report.corrected_path = report.original_path
    /\ report.corrected_dimensions = <<960, 1440>>
    /\ encoderLog = <<>>

\* C12, amended: a 960x1440 file of 640 KB is the 3x retina of 320x480: it is
\* downscaled to 320x480 at a sibling path, warned as retina and not as source,
\* and reported IMAGE. A 1000x1500 file of 640 KB, which is in no catalog and
\* no multiple of an entry, is reported IMAGE_SOURCE with the source warning
\* and left as it is.
C12_SourceExampleAmended ==
  /\ (/\ ipc = "done"
      /\ report.original_dimensions = <<960, 1440>>
      /\ files[report.original_path].size = 640 * BytesPerKB) =>
       /\ report.was_retina
       /\ report.corrected_dimensions = <<320, 480>>
       /\ report.creative_type = "IMAGE"
       /\ report.warnings[1] = "retina"
       /\ \A i \in 1..Len(report.warnings) : report.warnings[i] # "source"
       /\ report.corrected_path # report.original_path
       /\ encoderLog[1] = [input |-> report.original_path,
                           output |-> RetinaPath(report.original_path, 320, 480),
                           setting |-> 2]
  /\ (/\ ipc = "done"
      /\ report.original_dimensions = <<1000, 1500>>
      /\ files[report.original_path].size = 640 * BytesPerKB) =>
       /\ ~report.was_retina
       /\ report.creative_type = "IMAGE_SOURCE"
       /\ report.warnings = <<"source">>
       /\ report.corrected_path = report.original_path
       /\ report.corrected_dimensions = <<1000, 1500>>
       /\ encoderLog = <<>>

\* The 960x1440 file of 640 KB has been downscaled to a 320x480 file within the
\* budget and reported IMAGE with the retina warning alone.
C12_Witness ==
  /\ ipc = "done"
  /\ report.original_dimensions = <<960, 1440>>
  /\ files[report.original_path].size = 640 * BytesPerKB
  /\ report.corrected_dimensions = <<320, 480>>
  /\ report.creative_type = "IMAGE"
  /\ report.warnings = <<"retina">>
  /\ Len(encoderLog) = 1

\* --------------------------------------------------------------------- C13
\* C13: a file whose dimensions are a catalog entry and whose size is at most
\* 500 KB is returned as it is: no encoder call, corrected_path the original
\* path, no warning. A second call on the returned path gives the same report.
C13_CompliantIsIdempotent ==
  /\ (/\ ipc = "done"
      /\ report.original_dimensions \in AllSizes
      /\ files[report.original_path].size <= MaxKB * BytesPerKB) =>
       /\ encoderLog = <<>>
       /\ report.corrected_path = report.original_path
       /\ report.warnings = <<>>
       /\ ~report.was_compressed
  /\ (/\ ipc = "done"
      /\ calls >= 2
      /\ prev_report.original_dimensions \in AllSizes
      /\ files[prev_report.original_path].size <= MaxKB * BytesPerKB) =>
       report = prev_report

\* A 300x250 file of exactly 500 KB has been through two calls, the second on
\* the path the first returned.
C13_Witness ==
  /\ ipc = "done"
  /\ calls = 2
  /\ prev_report.original_dimensions = <<300, 250>>
  /\ files[prev_report.original_path].size = MaxKB * BytesPerKB
  /\ report.original_path = prev_report.corrected_path
  /\ report.upload_ready

\* --------------------------------------------------------------------- C14
\* The levels are tried in the order 23, 28, 33, 38.
TranscodeLevelsInOrder ==
  vop = "transcode" =>
    /\ Len(videoLog) <= Len(CrfLevels)
    /\ \A i \in 1..Len(videoLog) : videoLog[i].crf = CrfLevels[i]

\* An output within max_bytes ends the call at once with the path, and a path
\* is returned only for a file within max_bytes.
TranscodeReturnsFirstFit ==
  vop = "transcode" =>
    /\ \A i \in 1..Len(videoLog) :
         (videoLog[i].ok /\ videoLog[i].size # NoFile /\ videoLog[i].size <= max_bytes) =>
           /\ i = Len(videoLog)
           /\ vpc = "done"
           /\ video_result = "path"
    /\ (vpc = "done" /\ video_result = "path") =>
         /\ output_file # NoFile
         /\ output_file <= max_bytes
         /\ videoLog[Len(videoLog)].ok
         /\ videoLog[Len(videoLog)].size = output_file

\* All four levels ran and every output was over max_bytes.
TranscodeAllOver ==
  /\ vop = "transcode"
  /\ vpc = "done"
  /\ Len(videoLog) = Len(CrfLevels)
  /\ \A i \in 1..Len(videoLog) :
       videoLog[i].ok /\ videoLog[i].size # NoFile /\ videoLog[i].size > max_bytes

\* C14: the levels 23, 28, 33, 38 are tried in order; the first output within
\* max_bytes is returned at once and nothing over max_bytes is ever returned;
\* when all four outputs are over max_bytes, None is returned and no file is
\* left at the output path.
C14_TranscodeLadder ==
  /\ TranscodeLevelsInOrder
  /\ TranscodeReturnsFirstFit
  /\ TranscodeAllOver => (video_result = "none" /\ output_file = NoFile)

\* C14, amended: as C14, but when all four outputs are over max_bytes, None is
\* returned after os.unlink was called on the last output: no file is left
\* unless the unlink failed, and then the last output is still there.
C14_TranscodeLadderAmended ==
  /\ TranscodeLevelsInOrder
  /\ TranscodeReturnsFirstFit
  /\ TranscodeAllOver =>
       /\ video_result = "none"
       /\ unlink \in {"ok", "failed"}
       /\ unlink = "ok" => output_file = NoFile
       /\ unlink = "failed" => output_file = videoLog[Len(videoLog)].size

\* All four levels gave a file over a budget of 10 MB; the last one was
\* unlinked and None returned.
C14_Witness ==
  /\ TranscodeAllOver
  /\ max_bytes = 10 * BytesPerMB
  /\ video_result = "none"
  /\ unlink = "ok"
  /\ output_file = NoFile

\* The third level gave a file of exactly max_bytes, which was returned.
C14_WitnessFit ==
  /\ vop = "transcode"
  /\ vpc = "done"
  /\ Len(videoLog) = 3
  /\ video_result = "path"
  /\ output_file = max_bytes

\* --------------------------------------------------------------------- C15
\* The encoder invocations of compress_image among those of the call.
IsCompressEntry(e) == e.output = CompressedPath(e.input)
CompressEntries == SelectSeq(encoderLog, IsCompressEntry)

\* The settings of the image encoder are 4, 7, 10, 13, 16, 25 in this order.
ImageSettingsLadder ==
  LET ladder == <<4, 7, 10, 13, 16, 25>>
  IN  /\ Len(CompressEntries) <= 6
      /\ \A i \in 1..Len(CompressEntries) : CompressEntries[i].setting = ladder[i]
      /\ \A i, j \in 1..Len(CompressEntries) :
           i < j => CompressEntries[i].setting < CompressEntries[j].setting

\* The levels of the video encoder are 23, 28, 33, 38 in this order.
VideoSettingsLadder ==
  vop = "transcode" =>
    LET ladder == <<23, 28, 33, 38>>
    IN  /\ Len(videoLog) <= 4
        /\ \A i \in 1..Len(videoLog) : videoLog[i].crf = ladder[i]
        /\ \A i, j \in 1..Len(videoLog) : i < j => videoLog[i].crf < videoLog[j].crf

\* With a video encoder whose output does not grow with the level, no output is
\* larger than the one before it.
VideoOutputsDoNotGrow ==
  vop = "transcode" =>
    LET made == {i \in 1..Len(videoLog) : videoLog[i].ok /\ videoLog[i].size # NoFile}
        monotone == \A i, j \in made :
                      videoLog[i].crf <= videoLog[j].crf => videoLog[j].size <= videoLog[i].size
    IN  monotone => \A i, j \in made : j = i + 1 => videoLog[j].size <= videoLog[i].size

\* The same for a round of compress_image that follows another round: the
\* file at the output path before the round is the output of the round before.
ImageOutputsDoNotGrow ==
  (/\ ipc \in {"compress", "lastresort"}
   /\ ipc' # "raised"
   /\ Len(CompressEntries) >= 1
   /\ Len(encoderLog') = Len(encoderLog) + 1) =>
    LET before == encoderLog[Len(encoderLog)]
        after == encoderLog'[Len(encoderLog')]
        monotone == before.setting <= after.setting =>
                      files'[after.output].size <= files[before.output].size
    IN  monotone => files'[after.output].size <= files[before.output].size

C15_WitnessVideo ==
  /\ vop = "transcode"
  /\ vpc = "done"
  /\ Len(videoLog) = 4
  /\ videoLog[1].size = 2 * max_bytes
  /\ videoLog[4].size = max_bytes + 1

C17_EndcardNeverRaises ==
  vop = "endcard" =>
    /\ video_result # "raised"
    /\ vpc = "done" => video_result \in {"path", "none"}
    /\ (vpc = "done" /\ probe \in {"unparsable", "timeout"}) =>
         (video_result = "none" /\ videoLog = <<>>)
    /\ (vpc = "done" /\ Len(videoLog) = 1 /\ ~videoLog[1].ok) => video_result = "none"
    /\ video_result = "path" =>
         /\ Len(videoLog) = 1
         /\ videoLog[1].ok
         /\ output_file # NoFile
         /\ output_file > 0

\* The extraction command failed after a probe that had succeeded, left a
\* partial file, and None was returned.
C17_Witness ==
  /\ vop = "endcard"
  /\ vpc = "done"
  /\ probe = "number"
  /\ Len(videoLog) = 1
  /\ ~videoLog[1].ok
  /\ output_file = 4096
  /\ video_result = "none"

\* --------------------------------------------------------------------- C18
\* C18: the landscape box 1280x720 for every w > h, the portrait box 720x1280
\* for every h > w, the square box 720x720 for every w = h > 0, None for
\* (0, 0), and None for every input with a dimension that is zero or negative.
C18_NativeBox ==
  vop = "native" =>
    LET w == vid_dims[1]
        h == vid_dims[2]
    IN  /\ w > h => native_size = <<1280, 720>>
        /\ h > w => native_size = <<720, 1280>>
        /\ (w = h /\ w > 0) => native_size = <<720, 720>>
        /\ (w = 0 /\ h = 0) => native_size = NoBox
        /\ (w <= 0 \/ h <= 0) => native_size = NoBox

\* C18, amended: the landscape box for every w > h, the portrait box for every
\* h > w, the square box for every w = h > 0, None for (0, 0) and for every
\* w = h <= 0. An input with a zero or negative dimension and w # h is not
\* rejected: it gets the landscape or the portrait box by the comparison.
C18_NativeBoxAmended ==
  vop = "native" =>
    LET w == vid_dims[1]
        h == vid_dims[2]
    IN  /\ w > h => native_size = <<1280, 720>>
        /\ h > w => native_size = <<720, 1280>>
        /\ (w = h /\ w > 0) => native_size = <<720, 720>>
        /\ (w = h /\ w <= 0) => native_size = NoBox
        /\ ((w <= 0 \/ h <= 0) /\ w # h) => native_size \in {<<1280, 720>>, <<720, 1280>>}

\* A video of width 1080 and height 0 was given the landscape box.
C18_Witness ==
  /\ vop = "native"
  /\ vid_dims = <<1080, 0>>
  /\ native_size = <<1280, 720>>

\* --------------------------------------------------------------------- C19
\* No encoder invocation of a call has the file the call was given, or its own
\* input, as its output.
OutputsDifferFromInputs ==
  ipc # "idle" =>
    /\ file_path \in DOMAIN files
    /\ \A i \in 1..Len(encoderLog) :
         /\ encoderLog[i].output # file_path
         /\ encoderLog[i].output # encoderLog[i].input

\* A step of a call leaves the file the call was given as it is, removes no
\* file, and an encoder invocation leaves its input as it is.
InputsUnchanged ==
  /\ DOMAIN files \subseteq DOMAIN files'
  /\ (ipc # "idle" /\ file_path' = file_path) => files'[file_path] = files[file_path]
  /\ (ipc # "idle" /\ Len(encoderLog') = Len(encoderLog) + 1) =>
       LET e == encoderLog'[Len(encoderLog')]
       IN  files'[e.input] = files[e.input]

\* C19: prepare_image_for_upload, compress_image and resize_with_letterbox
\* with its default output path never write to their input and never delete
\* it: every output path handed to the encoder differs from the input path,
\* and the input file is the same after the call, also when the encoder fails.
C19_InputIsNeverWritten ==
  /\ []OutputsDifferFromInputs
  /\ [][ipc # "idle" => InputsUnchanged]_vars

\* A retina file of 640 KB was downscaled, the second round of the compression
\* of the downscaled file failed, and the file given is still there.
C19_Witness ==
  /\ ipc = "raised"
  /\ retina # NoRetina
  /\ Len(CompressEntries) = 2
  /\ file_path \in DOMAIN files
  /\ files[file_path] = [size |-> 640 * BytesPerKB, dims |-> probed]

\* --------------------------------------------------------------------- C20
\* The output paths the image helpers derive for a source file q: the
\* downscale and the letterbox to each target, and the compression of q or of
\* its downscale.
OutputsFor(q) ==
  {RetinaPath(q, e[1], e[2]) : e \in AllSizes}
    \cup {LetterboxPath(q, e[1], e[2]) : e \in VALID_IMAGE_SIZES}
    \cup {CompressedPath(q)}
    \cup {CompressedPath(RetinaPath(q, e[1], e[2])) : e \in AllSizes}

\* C20: operations on different source files never write the same output
\* path: a path written for one source file is no path derived for another
\* source file, two files that differ only in their extension included, and
\* is no other source file.
C20_NoSharedOutputPath ==
  (ipc # "idle" /\ file_path \in InputPaths) =>
    \A i \in 1..Len(encoderLog) : \A q \in InputPaths \ {file_path} :
      /\ encoderLog[i].output \notin OutputsFor(q)
      /\ encoderLog[i].output # q

\* --------------------------------------------------------------------- C21
\* The warning w is in the list ws.
HasWarning(ws, w) == \E i \in 1..Len(ws) : ws[i] = w

\* Every corrective action of the call has its warning in the report.
CorrectionsAreWarned ==
  ipc = "done" =>
    /\ report.was_retina => HasWarning(report.warnings, "retina")
    /\ Len(CompressEntries) > 0 => HasWarning(report.warnings, "compressing")

\* C21: a report whose final size is over 500 KB carries a warning about the
\* byte budget, whatever its creative type, and every corrective action, the
\* downscale and the compression, has its warning in the report.
C21_ShortfallIsWarned ==
  /\ CorrectionsAreWarned
  /\ (ipc = "done" /\ ~report.upload_ready) =>
       \/ HasWarning(report.warnings, "still_over")
       \/ HasWarning(report.warnings, "compressing")

\* C21, amended: every corrective action has its warning in the report, and an
\* IMAGE or NATIVE report over 500 KB carries the still-over-budget warning. An
\* IMAGE_SOURCE or UNKNOWN report over 500 KB carries the warning of its
\* classification alone and none about the byte budget.
C21_ShortfallIsWarnedAmended ==
  /\ CorrectionsAreWarned
  /\ (ipc = "done" /\ ~report.upload_ready
        /\ report.creative_type \in {"IMAGE", "NATIVE"}) =>
       /\ HasWarning(report.warnings, "compressing")
       /\ HasWarning(report.warnings, "still_over")
  /\ (ipc = "done" /\ ~report.upload_ready /\ report.creative_type = "IMAGE_SOURCE") =>
       report.warnings = <<"source">>
  /\ (ipc = "done" /\ ~report.upload_ready /\ report.creative_type = "UNKNOWN") =>
       report.warnings = <<"unknown">>

\* A retina file was downscaled and compressed through all six settings, and
\* the report, still over the budget, carries the three warnings in order.
C21_Witness ==
  /\ ipc = "done"
  /\ ~report.upload_ready
  /\ report.warnings = <<"retina", "compressing", "still_over">>
  /\ Len(CompressEntries) = 6

C23_RefreshExactlyWhenDue ==
  [][\A p \in Callers :
       /\ (pc[p] = "idle" /\ pc'[p] # "idle") =>
            LET due == \/ access_token = NoToken
                       \/ token_expires_at = NoExpiry
                       \/ now >= token_expires_at - 5
            IN  /\ due <=> tokenPosts' = tokenPosts + 1
                /\ due <=> pc'[p] = "tokwait"
                /\ ~due => (tokenPosts' = tokenPosts /\ pc'[p] = "reqwait")
                /\ access_token' = access_token
                /\ token_expires_at' = token_expires_at
       /\ (pc[p] = "tokwait" /\ pc'[p] = "reqwait") =>
            /\ access_token' # NoToken
            /\ access_token' # access_token
            /\ token_expires_at' = now + 16 * 60
  ]_vars

\* A caller found a credential with exactly 5 minutes left and is waiting for
\* the token request it sent.
C23_Witness ==
  \E p \in Callers :
    /\ pc[p] = "tokwait"
    /\ access_token # NoToken
    /\ token_expires_at - now = 5
    /\ tokenPosts = 2

\* --------------------------------------------------------------------- C24
\* The lock is free whenever a token request is in flight and after every
\* step, and a caller can always enter the check and have its answer handled.
LockNeverBlocks ==
  /\ auth_lock = NoOne
  /\ \A p \in Callers :
       /\ pc[p] = "tokwait" => (ENABLED TokenOk(p) /\ ENABLED TokenError(p))
       /\ (pc[p] = "idle" /\ (CredentialValid \/ tokenPosts < MaxTokenPosts)) =>
            ENABLED Call(p)

\* C24: the lock is never held while a token request is in flight and is
\* released on every path, so no caller blocks forever: every call that
\* waits for its token request returns or raises once the request is answered.
C24_LockIsNeverHeldAcrossRequest ==
  /\ []LockNeverBlocks
  /\ \A p \in Callers : (pc[p] = "tokwait") ~> (pc[p] # "tokwait")

\* Two callers wait for their token requests at once and the lock is free.
C24_Witness ==
  /\ \A p \in Callers : pc[p] = "tokwait"
  /\ auth_lock = NoOne
  /\ tokenPosts = NCallers

\* --------------------------------------------------------------------- C25
\* The encoder failed at some level of the call.
TranscodeEncoderFailed ==
  /\ vop = "transcode"
  /\ \E i \in 1..Len(videoLog) : ~videoLog[i].ok

\* The level that failed was the last one tried and None was returned.
TranscodeStopsAtFailure ==
  TranscodeEncoderFailed =>
    /\ \A i \in 1..Len(videoLog) : ~videoLog[i].ok => i = Len(videoLog)
    /\ vpc = "done"
    /\ video_result = "none"

\* C25: when the encoder fails at a level, no further level is tried, None is
\* returned without an exception, and no file is left at the output path,
\* also when a level before had left a file over the budget there.
C25_EncoderFailureAborts ==
  /\ TranscodeStopsAtFailure
  /\ TranscodeEncoderFailed => output_file = NoFile

\* C25, amended: as C25, but the file at the output path is unlinked with a
\* failure of os.unlink ignored: no file is left unless the unlink failed,
\* and then the file the failed level left is still there.
C25_EncoderFailureAbortsAmended ==
  /\ TranscodeStopsAtFailure
  /\ TranscodeEncoderFailed =>
       LET left == videoLog[Len(videoLog)].size
       IN  /\ left = NoFile => (unlink = "none" /\ output_file = NoFile)
           /\ left # NoFile => unlink \in {"ok", "failed"}
           /\ unlink = "ok" => output_file = NoFile
           /\ unlink = "failed" => output_file = left

\* Two levels gave files over the budget, the third level failed and left the
\* file of the second, which was unlinked.
C25_Witness ==
  /\ TranscodeEncoderFailed
  /\ Len(videoLog) = 3
  /\ videoLog[2].size = 2 * max_bytes
  /\ videoLog[3].size = 2 * max_bytes
  /\ unlink = "ok"
  /\ output_file = NoFile
  /\ video_result = "none"

\* --------------------------------------------------------------------- C26
\* The file the call holds after the retina step: the downscaled file, or the
\* file given when there was no match.
AfterRetinaPath ==
  IF retina # NoRetina THEN RetinaPath(file_path, retina.target_w, retina.target_h)
                       ELSE file_path

\* The compression is due: that file is over 500 KB and the corrected
\* dimensions are a catalog entry.
CompressionDue ==
  /\ files[AfterRetinaPath].size > 500 * 1024
  /\ corrected_dims \in VALID_IMAGE_SIZES \cup VALID_NATIVE_SIZES

\* C26: the compression runs exactly when the size after the retina step is
\* over 500 KB and the corrected dimensions are in a catalog. An IMAGE_SOURCE
\* or UNKNOWN file is never compressed, whatever its size, and its
\* corrected_path is the original path.
C26_CompressionExactlyWhenDue ==
  /\ ipc \in {"compress", "lastresort"} => CompressionDue
  /\ (ipc = "raised" /\ Len(CompressEntries) > 0) => CompressionDue
  /\ ipc = "done" =>
       /\ Len(CompressEntries) > 0 <=> CompressionDue
       /\ HasWarning(report.warnings, "compressing") <=> CompressionDue
       /\ report.creative_type \in {"IMAGE_SOURCE", "UNKNOWN"} =>
            /\ encoderLog = <<>>
            /\ report.corrected_path = report.original_path
            /\ ~report.was_compressed

\* A 1200x628 file of 500 KB and one byte was compressed at the first setting.
C26_Witness ==
  /\ ipc = "done"
  /\ report.original_dimensions = <<1200, 628>>
  /\ files[report.original_path].size = 500 * 1024 + 1
  /\ report.creative_type = "NATIVE"
  /\ Len(CompressEntries) = 1
  /\ report.upload_ready

\* --------------------------------------------------------------------- C27
\* The rounds of compress_image so far: qualities 90, 80, 70, 60, 50 and then
\* the last resort, every round encoding the file compress_image was given.
CompressRounds ==
  LET qualities == <<90, 80, 70, 60, 50>>
  IN  /\ Len(CompressEntries) <= 6
      /\ \A i \in 1..Len(CompressEntries) :
           /\ CompressEntries[i].input = AfterRetinaPath
           /\ CompressEntries[i].output = CompressedPath(AfterRetinaPath)
           /\ i <= 5 => CompressEntries[i].setting = 31 - (qualities[i] * 3) \div 10
           /\ i = 6 => CompressEntries[i].setting = 25
      /\ ipc = "compress" =>
           (Len(CompressEntries) < 5 /\ quality = qualities[Len(CompressEntries) + 1])
      /\ ipc = "lastresort" => Len(CompressEntries) = 5

\* What a round that the encoder ends with success leads to.
CompressRoundOutcome ==
  (/\ ipc \in {"compress", "lastresort"}
   /\ ipc' # "raised"
   /\ Len(encoderLog') = Len(encoderLog) + 1) =>
    LET out == CompressedPath(AfterRetinaPath)
        n == Len(CompressEntries) + 1
        fits == files'[out].size <= 500 * 1024
    IN  /\ (fits \/ n = 6) =>
             /\ ipc' = "done"
             /\ report'.corrected_path = out
             /\ report'.size = files'[out].size
             /\ report'.upload_ready <=> fits
             /\ HasWarning(report'.warnings, "still_over") <=> ~fits
        /\ (~fits /\ n < 5) => ipc' = "compress"
        /\ (~fits /\ n = 5) => ipc' = "lastresort"

\* C27: compress_image on a file over the budget tries the qualities 90, 80,
\* 70, 60, 50 in order, each time on the file it was given, and returns after
\* the first output within the budget. When all five are over the budget it
\* makes one more attempt at the strongest setting and returns, with the
\* still-over warning and upload_ready false when that output is over the
\* budget too. There are at most 6 encoder invocations.
C27_CompressionLoop ==
  /\ []CompressRounds
  /\ [][CompressRoundOutcome]_vars

\* All six rounds ran on a 300x50 file and the last output is still over the
\* budget.
C27_Witness ==
  /\ ipc = "done"
  /\ report.original_dimensions = <<300, 50>>
  /\ Len(CompressEntries) = 6
  /\ ~report.upload_ready
  /\ report.warnings = <<"compressing", "still_over">>

RetinaScaleSet == {RetinaScales[i] : i \in 1..Len(RetinaScales)}

C29_RetinaIsDeterministic ==
  (calls > 0) =>
    LET w == probed[1]
        h == probed[2]
        results == detect_retina_size(w, h)
    IN  /\ \A s \in RetinaScaleSet : Cardinality(RetinaMatchesAt(w, h, s)) <= 1
        /\ Cardinality(results) <= 1
        /\ retina = NoRetina => results = {}
        /\ retina # NoRetina =>
             /\ results = {retina}
             /\ <<retina.target_w, retina.target_h>> \in
                  RetinaMatchesAt(w, h, retina.scale)
             /\ \A s \in RetinaScaleSet :
                  RetinaMatchesAt(w, h, s) # {} => retina.scale <= s

\* A call on 640x100 reported 320x50 at scale 2 and the next call, on its
\* output, reported no match; a call on 620x100, half way between twice 300x50
\* and twice 320x50, reported no match.
C29_Witness ==
  /\ ipc = "done"
  /\ calls = 2
  /\ prev_report.original_dimensions = <<640, 100>>
  /\ prev_report.was_retina
  /\ prev_report.corrected_dimensions = <<320, 50>>
  /\ ~report.was_retina

C29_WitnessNearTie ==
  /\ ipc = "done"
  /\ probed = <<620, 100>>
  /\ retina = NoRetina
  /\ ~report.was_retina

\* C30: in every report of prepare_image_for_upload with was_retina true, the
\* corrected dimensions are an entry of the standard or the native catalog,
\* creative_type is IMAGE or NATIVE, corrected_path differs from
\* original_path, and the first warning is the retina warning, followed by
\* compression warnings only.
CompressionWarnings == {"compressing", "still_over"}

RetinaReportIsWellFormed(r) ==
  /\ r.corrected_dimensions \in VALID_IMAGE_SIZES \cup VALID_NATIVE_SIZES
  /\ r.creative_type \in {"IMAGE", "NATIVE"}
  /\ r.creative_type = "IMAGE" <=> r.corrected_dimensions \in VALID_IMAGE_SIZES
  /\ r.corrected_path # r.original_path
  /\ Len(r.warnings) >= 1
  /\ r.warnings[1] = "retina"
  /\ \A i \in 2..Len(r.warnings) : r.warnings[i] \in CompressionWarnings

C30_RetinaReport ==
  /\ report.was_retina => RetinaReportIsWellFormed(report)
  /\ prev_report.was_retina => RetinaReportIsWellFormed(prev_report)

\* A retina image was downscaled to a native size, the output was over the
\* budget and stayed over it: the report has the three warnings in order.
C30_Witness ==
  /\ ipc = "done"
  /\ report.was_retina
  /\ report.creative_type = "NATIVE"
  /\ report.warnings = <<"retina", "compressing", "still_over">>
  /\ report.corrected_path # report.original_path

\* A retina report with the retina warning alone.
C30_WitnessPlain ==
  /\ ipc = "done"
  /\ report.was_retina
  /\ report.creative_type = "IMAGE"
  /\ report.warnings = <<"retina">>


====
